---- MODULE Spec2Model ----
(***************************************************************************)
(* Model of scale-ai/training: the stroke preprocessing pipeline           *)
(* (preprocess.py) and the DoodleNet classifier (model.py).                *)
(*                                                                         *)
(* Library calls are modelled by what the library does:                    *)
(*   - dict.get(k, d) / d[k]: default on a missing key / KeyError;         *)
(*   - PIL ImageDraw.line: image coordinates are cast to int (truncated    *)
(*     toward zero), a segment blackens the pixels of its centre line that *)
(*     lie inside the image, a segment of length zero blackens its one     *)
(*     pixel; the thickening by line_width is not modelled;                *)
(*   - PIL Image.resize: raises ValueError for a target side below 1;      *)
(*   - np.random: one global state, reset by seed(), advanced by each draw;*)
(*   - np.stack: raises ValueError on an empty list;                       *)
(*   - torch load_state_dict(strict=True): copies every entry whose key    *)
(*     and shape match, collects the mismatches, raises RuntimeError last; *)
(*   - torch BatchNorm2d: in training mode forward() updates the running   *)
(*     statistics, with or without no_grad; Dropout draws a mask in        *)
(*     training mode only.                                                 *)
(* Real arithmetic is exact (rationals as integer numerators); tensor      *)
(* values are numerators over 255.                                         *)
(***************************************************************************)
EXTENDS Integers, Sequences, FiniteSets, TLC

VARIABLES
    rng,    \* np.random's global state
    inp,    \* the arguments of the call under way (pure-function specifications)
    call,   \* the last completed call: its operation, arguments and outcome
    memo,   \* first outcome of augment_image per (image side, seed)
    thr,    \* the concurrent augment_image calls, one record per thread
    net,    \* the DoodleNet object: parameters, buffers, training flag
    ncall   \* the last classifier operation

vars == <<rng, inp, call, memo, thr, net, ncall>>

----------------------------------------------------------------------------
(* Optional values (a missing dict key, seed=None) and call outcomes.      *)

None == <<>>
Some(v) == <<v>>
Get(opt, default) == IF opt = None THEN default ELSE opt[1]

Raise(e) == [kind |-> "raise", exc |-> e]
Ok(v) == [kind |-> "ok", value |-> v]
Idle == [op |-> "none"]

Max(a, b) == IF a >= b THEN a ELSE b
Abs(a) == IF a >= 0 THEN a ELSE -a

(* C's (int) cast of the real n/d: truncation toward zero. *)
TruncQ(n, d) ==
    IF (n >= 0) = (d > 0) THEN Abs(n) \div Abs(d) ELSE -(Abs(n) \div Abs(d))

----------------------------------------------------------------------------
(* preprocess.py: strokes_to_image                                         *)

CanvasDefault == 400
DefaultLineWidth == 2

(* Image.new('L', (size, size), color=255) and np.array(img): a grid of    *)
(* pixel values, 0 where drawn.                                            *)
Positions(w, h) == (0 .. w - 1) \X (0 .. h - 1)
GridImage(w, h, black) ==
    [h |-> h, w |-> w,
     px |-> [kind |-> "grid",
             val |-> [p \in Positions(w, h) |-> IF p \in black THEN 0 ELSE 255]]]

(* draw.line([a, b], fill=0, width=line_width) on a size x size image.     *)
LinePixels(a, b, size) ==
    LET dx == b[1] - a[1]
        dy == b[2] - a[2]
        n  == Max(Abs(dx), Abs(dy))
        at(i) == <<a[1] + (2 * i * dx + n) \div (2 * n),
                   a[2] + (2 * i * dy + n) \div (2 * n)>>
    IN  IF n = 0 THEN {a} \cap Positions(size, size)
        ELSE {at(i) : i \in 0 .. n} \cap Positions(size, size)

(* pt['x'] * scale + offset_x, then the cast to int; scale = num / den.    *)
ToPixel(c, num, den, offset) == TruncQ(c * num + offset * den, den)

RECURSIVE DrawStrokes(_, _, _, _, _, _, _)
DrawStrokes(black, strokes, i, num, den, padding, size) ==
    IF i > Len(strokes) THEN Ok(GridImage(size, size, black))
    ELSE LET points == Get(strokes[i].points, <<>>)
         IN  IF Len(points) < 2
             THEN DrawStrokes(black, strokes, i + 1, num, den, padding, size)
             ELSE IF \E k \in 1 .. Len(points) :
                        points[k].x = None \/ points[k].y = None
             THEN Raise("KeyError")
             ELSE LET coords == [k \in 1 .. Len(points) |->
                                   <<ToPixel(points[k].x[1], num, den, padding),
                                     ToPixel(points[k].y[1], num, den, padding)>>]
                      drawn == UNION {LinePixels(coords[k], coords[k + 1], size) :
                                        k \in 1 .. Len(points) - 1}
                  IN  DrawStrokes(black \cup drawn, strokes, i + 1,
                                  num, den, padding, size)

strokes_to_image(stroke_data, size, line_width, padding) ==
    LET strokes == Get(stroke_data.strokes, <<>>)
        canvas  == Get(stroke_data.canvas,
                       [width |-> Some(CanvasDefault), height |-> Some(CanvasDefault)])
        canvas_width  == Get(canvas.width, CanvasDefault)
        canvas_height == Get(canvas.height, CanvasDefault)
        den == Max(canvas_width, canvas_height)
    IN  IF den = 0 THEN Raise("ZeroDivisionError")
        ELSE DrawStrokes({}, strokes, 1, size - 2 * padding, den, padding, size)

----------------------------------------------------------------------------
(* Inputs of the rasterizer.                                               *)

RasterSize == 4
MaxPadding == 3
MaxStrokes == 2
MaxPoints == 2

Coords == {0, CanvasDefault}
OptDims == {None, Some(0), Some(CanvasDefault), Some(-CanvasDefault)}

PointSet ==
    {[x |-> Some(c), y |-> Some(d)] : c \in Coords, d \in Coords}
    \cup {[x |-> None, y |-> Some(0)], [x |-> Some(0), y |-> None]}

SeqsUpTo(S, n) == UNION {[1 .. k -> S] : k \in 0 .. n}

StrokeSet ==
    {[points |-> None]} \cup {[points |-> Some(ps)] : ps \in SeqsUpTo(PointSet, MaxPoints)}

CanvasSet ==
    {None} \cup {Some([width |-> w, height |-> h]) : w \in OptDims, h \in OptDims}

DrawingSet ==
    {[strokes |-> s, canvas |-> c] :
        s \in {None} \cup {Some(ss) : ss \in SeqsUpTo(StrokeSet, MaxStrokes)},
        c \in CanvasSet}

RasterInputs ==
    {[op |-> "strokes_to_image", data |-> d, size |-> RasterSize,
      line_width |-> DefaultLineWidth, padding |-> p] :
        d \in DrawingSet, p \in 0 .. MaxPadding}

(* What the data model calls malformed or out of range.                    *)
CanvasOf(d) ==
    Get(d.canvas, [width |-> Some(CanvasDefault), height |-> Some(CanvasDefault)])
NonPositiveCanvas(d) ==
    \/ Get(CanvasOf(d).width, CanvasDefault) <= 0
    \/ Get(CanvasOf(d).height, CanvasDefault) <= 0
MalformedStroke(s) ==
    \/ s.points = None
    \/ \E k \in 1 .. Len(Get(s.points, <<>>)) :
          s.points[1][k].x = None \/ s.points[1][k].y = None
Malformed(d) ==
    \E i \in 1 .. Len(Get(d.strokes, <<>>)) : MalformedStroke(d.strokes[1][i])

----------------------------------------------------------------------------
(* The rasterizer as a pure function: Init draws the arguments, the action *)
(* applies strokes_to_image.                                               *)

Quiet ==
    /\ rng = 0 /\ memo = <<>> /\ thr = <<>> /\ net = Idle /\ ncall = Idle

InitRaster ==
    /\ inp \in RasterInputs
    /\ call = Idle
    /\ Quiet

StrokesToImage ==
    /\ inp.op = "strokes_to_image"
    /\ call = Idle
    /\ call' = [op |-> "strokes_to_image", args |-> inp,
                result |-> strokes_to_image(inp.data, inp.size,
                                            inp.line_width, inp.padding)]
    /\ UNCHANGED <<rng, inp, memo, thr, net, ncall>>

NextRaster == StrokesToImage

SpecRaster == InitRaster /\ [][NextRaster]_vars

(* C3: every Drawing whose canvas width or height is not positive is       *)
(* rejected: strokes_to_image raises and returns no image (the class of    *)
(* the exception is not even compared).                                    *)
C3_NonPositiveCanvasRejected ==
    (call.op = "strokes_to_image" /\ NonPositiveCanvas(call.args.data))
        => call.result.kind = "raise"

(* C4: whenever padding >= size/2 (scale <= 0) the call is rejected or the *)
(* returned image is all 255: no pixel is drawn.                           *)
C4_NoInkWhenPaddingConsumesImage ==
    (call.op = "strokes_to_image" /\ 2 * call.args.padding >= call.args.size)
        => \/ call.result.kind = "raise"
           \/ \A p \in DOMAIN call.result.value.px.val :
                 call.result.value.px.val[p] = 255

(* C5: a Drawing with a stroke lacking `points`, or a point lacking `x` or *)
(* `y`, is always reported: strokes_to_image raises and returns no image.  *)
C5_MalformedStrokeReported ==
    (call.op = "strokes_to_image" /\ Malformed(call.args.data))
        => call.result.kind = "raise"

----------------------------------------------------------------------------
(* preprocess.py: image_to_tensor.  A tensor value is the numerator of a   *)
(* fraction over 255: 1.0 - p / 255.0 = (255 - p) / 255.                   *)

PixelMax == 255

image_to_tensor_no_invert(img) ==
    [shape |-> <<1, img.h, img.w>>,
     data  |-> IF img.px.kind = "grid"
               THEN [kind |-> "grid",
                     val |-> [p \in DOMAIN img.px.val |-> img.px.val[p]]]
               ELSE [kind |-> "normalized", of |-> img.px]]

image_to_tensor(img) ==
    [shape |-> <<1, img.h, img.w>>,
     data  |-> IF img.px.kind = "grid"
               THEN [kind |-> "grid",
                     val |-> [p \in DOMAIN img.px.val |-> PixelMax - img.px.val[p]]]
               ELSE [kind |-> "inverted", of |-> img.px]]

(* Inputs: every 1 x 1 image, and every image of up to MaxSide x MaxSide   *)
(* over a few sample intensities.                                          *)
MaxSide == 2
PixelSamples == {0, 100, PixelMax}

PixelImage(w, h, val) == [h |-> h, w |-> w, px |-> [kind |-> "grid", val |-> val]]

TensorInputs ==
    {[op |-> "image_to_tensor", img |-> PixelImage(1, 1, [p \in Positions(1, 1) |-> v])] :
        v \in 0 .. PixelMax}
    \cup UNION {{[op |-> "image_to_tensor", img |-> PixelImage(w, h, val)] :
                    val \in [Positions(w, h) -> PixelSamples]} :
                w \in 1 .. MaxSide, h \in 1 .. MaxSide}

InitTensor ==
    /\ inp \in TensorInputs
    /\ call = Idle
    /\ Quiet

ImageToTensor ==
    /\ inp.op = "image_to_tensor"
    /\ call = Idle
    /\ call' = [op |-> "image_to_tensor", args |-> inp,
                result |-> image_to_tensor(inp.img)]
    /\ UNCHANGED <<rng, inp, memo, thr, net, ncall>>

NextTensor == ImageToTensor

SpecTensor == InitTensor /\ [][NextTensor]_vars

(* C9: image_to_tensor maps every pixel p in 0..255 to 1 - p/255 (here the *)
(* numerator 255 - p over 255), so every value lies in [0,1]; an all-255   *)
(* image gives an all-zero tensor, an all-0 image an all-one tensor; the   *)
(* output has one leading channel dimension before the unchanged grid.     *)
C9_TensorNormalizedInverted ==
    call.op = "image_to_tensor" =>
        LET img == call.args.img
            t   == call.result
        IN  /\ t.shape = <<1, img.h, img.w>>
            /\ DOMAIN t.data.val = DOMAIN img.px.val
            /\ \A p \in DOMAIN img.px.val :
                  /\ t.data.val[p] = PixelMax - img.px.val[p]
                  /\ t.data.val[p] >= 0 /\ t.data.val[p] <= PixelMax
            /\ (\A p \in DOMAIN img.px.val : img.px.val[p] = PixelMax)
                  => (\A p \in DOMAIN img.px.val : t.data.val[p] = 0)
            /\ (\A p \in DOMAIN img.px.val : img.px.val[p] = 0)
                  => (\A p \in DOMAIN img.px.val : t.data.val[p] = PixelMax)

C9_Witness ==
    /\ call.op = "image_to_tensor"
    /\ call.args.img.w = MaxSide /\ call.args.img.h = MaxSide
    /\ \A p \in DOMAIN call.args.img.px.val : call.args.img.px.val[p] = PixelMax
    /\ \A p \in DOMAIN call.result.data.val : call.result.data.val[p] = 0

----------------------------------------------------------------------------
(* np.random: the module-level generator.  Its state is one of RngMod      *)
(* values; seed(s) resets it, every draw reads it and advances it.         *)

RngMod == 16
RngStride == 7

SeedState(seed) == seed % RngMod
NextState(st) == (st + RngStride) % RngMod
AdvanceBy(st, n) == (st + RngStride * n) % RngMod
(* np.random.uniform(lo, hi): a value of [lo, hi) read off the state.      *)
Uniform(lo, hi, st) == lo + ((hi - lo) * st) \div RngMod

----------------------------------------------------------------------------
(* preprocess.py: augment_image.  The geometric transforms are kept as the *)
(* record of what was applied to which pixels; sizes are computed.         *)

ScaleUnit == 1000

(* if seed is not None: np.random.seed(seed) *)
SeedTruthy(seed, st) == IF seed # None /\ seed[1] # 0 THEN SeedState(seed[1]) ELSE st

Seeding(seed, st) == IF seed # None THEN SeedState(seed[1]) ELSE st

(* angle = np.random.uniform(-15, 15); pil_img.rotate(angle, fillcolor=255) *)
DrawAngle(st) == Uniform(-15, 15, st)
Rotate(pil, angle) ==
    [pil EXCEPT !.px = [kind |-> "rotated", of |-> pil.px, arg |-> angle]]

(* scale = np.random.uniform(0.9, 1.1), in thousandths;                    *)
(* new_size = int(pil_img.width * scale)                                   *)
DrawScale(st) == Uniform(900, 1100, st)
NewSize(pil, scale) == TruncQ(pil.w * scale, ScaleUnit)

(* pil_img.resize((new_size, new_size), BILINEAR): ValueError below 1.     *)
Resize(pil, new_size) ==
    IF new_size < 1 THEN Raise("ValueError")
    ELSE Ok([h |-> new_size, w |-> new_size,
             px |-> [kind |-> "resized", of |-> pil.px, arg |-> new_size]])

(* Crop or pad back to original size. *)
Recenter(pil, orig_size, new_size) ==
    IF new_size > orig_size
    THEN LET left == (new_size - orig_size) \div 2
         IN  [h |-> (left + orig_size) - left, w |-> (left + orig_size) - left,
              px |-> [kind |-> "cropped", of |-> pil.px, arg |-> left]]
    ELSE IF new_size < orig_size
    THEN LET offset == (orig_size - new_size) \div 2
         IN  [h |-> orig_size, w |-> orig_size,
              px |-> [kind |-> "pasted", of |-> pil.px, arg |-> offset]]
    ELSE pil

(* noise = np.random.normal(0, 2, result.shape); clip(result + noise).     *)
(* The noise array is a function of the state it is drawn from.            *)
AddNoise(result, st) ==
    [result EXCEPT !.px = [kind |-> "noisy", of |-> result.px, arg |-> st]]
NoiseDraws(result) == result.h * result.w

(* The geometric part between the scale draw and the noise draw.           *)
Geometry(img, angle, scale) ==
    LET rotated  == Rotate([h |-> img.h, w |-> img.w, px |-> img.px], angle)
        new_size == NewSize(rotated, scale)
        resized  == Resize(rotated, new_size)
        orig_size == img.h
    IN  IF resized.kind = "raise" THEN resized
        ELSE Ok(Recenter(resized.value, orig_size, new_size))

(* One whole call from generator state st: the outcome and the state left. *)
augment_image(img, seed, st) ==
    LET st0   == Seeding(seed, st)
        angle == DrawAngle(st0)
        st1   == NextState(st0)
        scale == DrawScale(st1)
        st2   == NextState(st1)
        geo   == Geometry(img, angle, scale)
    IN  IF geo.kind = "raise" THEN [result |-> geo, rng |-> st2]
        ELSE [result |-> Ok(AddNoise(geo.value, st2)),
              rng |-> AdvanceBy(st2, NoiseDraws(geo.value))]

----------------------------------------------------------------------------
(* Drawings used by the augmentation and batch specifications.             *)

DefaultPadding == 4
SmallSide == 4
LargeSide == 12
NumSeeds == 2

Pt(a, b) == [x |-> Some(a), y |-> Some(b)]
Diagonal == [points |-> Some(<<Pt(0, 0), Pt(CanvasDefault, CanvasDefault)>>)]
FullCanvas == Some([width |-> Some(CanvasDefault), height |-> Some(CanvasDefault)])

EmptyDrawing == [strokes |-> Some(<<>>), canvas |-> None]
LineDrawing == [strokes |-> Some(<<Diagonal>>), canvas |-> FullCanvas]
NoPointsDrawing == [strokes |-> Some(<<[points |-> None], Diagonal>>), canvas |-> FullCanvas]
ZeroWidthDrawing ==
    [strokes |-> Some(<<Diagonal>>),
     canvas |-> Some([width |-> Some(0), height |-> Some(CanvasDefault)])]
NoXDrawing ==
    [strokes |-> Some(<<[points |-> Some(<<[x |-> None, y |-> Some(0)], Pt(0, 0)>>)]>>),
     canvas |-> FullCanvas]

Sides == {1, SmallSide, LargeSide}
Seeds == 0 .. NumSeeds - 1
OptSeeds == {None} \cup {Some(s) : s \in Seeds}

(* The RasterImages the pipeline hands to augment_image, one per side.    *)
AugImage(side) ==
    strokes_to_image(LineDrawing, side, DefaultLineWidth, DefaultPadding).value

----------------------------------------------------------------------------
(* Sequential calls of augment_image on the shared generator.              *)

InitAugment ==
    /\ rng = 0
    /\ inp = Idle
    /\ call = Idle
    /\ memo = [k \in Sides \X Seeds |-> None]
    /\ thr = <<>> /\ net = Idle /\ ncall = Idle

AugmentImage ==
    \E side \in Sides, seed \in OptSeeds :
        LET out == augment_image(AugImage(side), seed, rng)
            key == <<side, Get(seed, 0)>>
        IN  /\ rng' = out.rng
            /\ call' = [op |-> "augment_image", side |-> side, seed |-> seed,
                        result |-> out.result,
                        again |-> (seed # None /\ memo[key] # None),
                        moved |-> (seed # None /\ rng # SeedState(seed[1]))]
            /\ memo' = IF seed # None /\ memo[key] = None
                       THEN [memo EXCEPT ![key] = Some(out.result)]
                       ELSE memo
            /\ UNCHANGED <<inp, thr, net, ncall>>

NextAugment == AugmentImage

SpecAugment == InitAugment /\ [][NextAugment]_vars

(* C6: for every image and every fixed seed, each call                     *)
(* augment_image(img, seed) returns the same output as the first such call *)
(* (memo holds it under the image's side and the seed),                    *)
(* whatever calls (seeded or not) ran before or between them.              *)
C6_SeededAugmentDeterministic ==
    (call.op = "augment_image" /\ call.seed # None)
        => memo[<<call.side, call.seed[1]>>] = Some(call.result)

(* A repeated seeded call that returned an image and started from a        *)
(* generator state other than the one its seed sets.                       *)
C6_Witness ==
    /\ call.op = "augment_image"
    /\ call.seed # None
    /\ call.again
    /\ call.moved
    /\ call.result.kind = "ok"

(* C8: augment_image returns an image of exactly the shape of its input    *)
(* for every drawn scale factor: cropped when the truncated scaled size is *)
(* larger, pasted on a white canvas when smaller, left as is when equal.   *)
C8_AugmentKeepsShape ==
    call.op = "augment_image"
        => /\ call.result.kind = "ok"
           /\ call.result.value.h = AugImage(call.side).h
           /\ call.result.value.w = AugImage(call.side).w

----------------------------------------------------------------------------
(* preprocess.py: batch_preprocess.                                        *)

MaxBatch == 2

(* np.stack(images): ValueError ("need at least one array to stack") on an *)
(* empty list.                                                             *)
np_stack(images) == IF Len(images) = 0 THEN Raise("ValueError") ELSE Ok(images)

RECURSIVE BatchLoop(_, _, _, _, _, _)
BatchLoop(images, stroke_data_list, i, size, augment, st) ==
    IF i > Len(stroke_data_list) THEN [result |-> np_stack(images), rng |-> st]
    ELSE LET img == strokes_to_image(stroke_data_list[i], size,
                                     DefaultLineWidth, DefaultPadding)
         IN  IF img.kind = "raise" THEN [result |-> img, rng |-> st]
             ELSE LET aug == IF augment THEN augment_image(img.value, None, st)
                             ELSE [result |-> img, rng |-> st]
                  IN  IF aug.result.kind = "raise" THEN aug
                      ELSE BatchLoop(Append(images, image_to_tensor(aug.result.value)),
                                     stroke_data_list, i + 1, size, augment, aug.rng)

batch_preprocess(stroke_data_list, size, augment, st) ==
    BatchLoop(<<>>, stroke_data_list, 1, size, augment, st)

BatchDrawings ==
    {EmptyDrawing, LineDrawing, NoPointsDrawing, ZeroWidthDrawing, NoXDrawing}

BatchInputs ==
    {[op |-> "batch_preprocess", list |-> l, size |-> sz, augment |-> a] :
        l \in SeqsUpTo(BatchDrawings, MaxBatch), sz \in Sides, a \in BOOLEAN}

InitBatch ==
    /\ inp \in BatchInputs
    /\ rng \in 0 .. RngMod - 1
    /\ call = Idle
    /\ memo = <<>> /\ thr = <<>> /\ net = Idle /\ ncall = Idle

BatchPreprocess ==
    /\ inp.op = "batch_preprocess"
    /\ call = Idle
    /\ LET out == batch_preprocess(inp.list, inp.size, inp.augment, rng)
       IN  /\ call' = [op |-> "batch_preprocess", args |-> inp, before |-> rng,
                       result |-> out.result]
           /\ rng' = out.rng
    /\ UNCHANGED <<inp, memo, thr, net, ncall>>

NextBatch == BatchPreprocess

SpecBatch == InitBatch /\ [][NextBatch]_vars

(* The tensor the pipeline makes of one Drawing: rasterized, augmented     *)
(* from some generator state if requested, normalized.                     *)
IsPreprocessingOf(tensor, d, size, augment) ==
    LET img == strokes_to_image(d, size, DefaultLineWidth, DefaultPadding)
    IN  /\ img.kind = "ok"
        /\ IF augment
           THEN \E st \in 0 .. RngMod - 1 :
                   LET aug == augment_image(img.value, None, st).result
                   IN  aug.kind = "ok" /\ tensor = image_to_tensor(aug.value)
           ELSE tensor = image_to_tensor(img.value)

(* C7: for every list of N Drawings the result has exactly N tensors, the  *)
(* tensor at position i being the preprocessing of the Drawing at position *)
(* i; if some Drawing is invalid the call fails as a whole.                *)
C7_BatchOrderedOneToOne ==
    call.op = "batch_preprocess" =>
        LET list == call.args.list
        IN  IF \E i \in 1 .. Len(list) : NonPositiveCanvas(list[i]) \/ Malformed(list[i])
            THEN call.result.kind = "raise"
            ELSE /\ call.result.kind = "ok"
                 /\ Len(call.result.value) = Len(list)
                 /\ \A i \in 1 .. Len(list) :
                       IsPreprocessingOf(call.result.value[i], list[i],
                                         call.args.size, call.args.augment)

----------------------------------------------------------------------------
(* Concurrent augment_image calls: each thread runs the statements of      *)
(* augment_image in order; a statement that touches np.random is one step. *)
(* The images are those of side 2 and more, on which a call run alone      *)
(* always returns an image.                                                *)

NumThreads == 2
Threads == 1 .. NumThreads

IdleThread ==
    [pc |-> "idle", img |-> Idle, seed |-> None, angle |-> 0, geo |-> Idle,
     result |-> Idle]

InitConcurrent ==
    /\ rng = 0
    /\ thr = [t \in Threads |-> IdleThread]
    /\ inp = Idle /\ call = Idle /\ memo = <<>> /\ net = Idle /\ ncall = Idle

Enter(t) ==
    /\ thr[t].pc = "idle"
    /\ \E side \in Sides \ {1}, s \in Seeds :
          thr' = [thr EXCEPT ![t] = [IdleThread EXCEPT !.pc = "seed",
                                                       !.img = AugImage(side),
                                                       !.seed = Some(s)]]
    /\ UNCHANGED <<rng, inp, call, memo, net, ncall>>

SeedStep(t) ==
    /\ thr[t].pc = "seed"
    /\ rng' = Seeding(thr[t].seed, rng)
    /\ thr' = [thr EXCEPT ![t].pc = "angle"]
    /\ UNCHANGED <<inp, call, memo, net, ncall>>

AngleStep(t) ==
    /\ thr[t].pc = "angle"
    /\ thr' = [thr EXCEPT ![t].pc = "scale", ![t].angle = DrawAngle(rng)]
    /\ rng' = NextState(rng)
    /\ UNCHANGED <<inp, call, memo, net, ncall>>

ScaleStep(t) ==
    /\ thr[t].pc = "scale"
    /\ LET geo == Geometry(thr[t].img, thr[t].angle, DrawScale(rng))
       IN  thr' = IF geo.kind = "raise"
                  THEN [thr EXCEPT ![t].pc = "done", ![t].result = geo]
                  ELSE [thr EXCEPT ![t].pc = "noise", ![t].geo = geo.value]
    /\ rng' = NextState(rng)
    /\ UNCHANGED <<inp, call, memo, net, ncall>>

NoiseStep(t) ==
    /\ thr[t].pc = "noise"
    /\ thr' = [thr EXCEPT ![t].pc = "done",
                          ![t].result = Ok(AddNoise(thr[t].geo, rng))]
    /\ rng' = AdvanceBy(rng, NoiseDraws(thr[t].geo))
    /\ UNCHANGED <<inp, call, memo, net, ncall>>

Return(t) ==
    /\ thr[t].pc = "done"
    /\ thr' = [thr EXCEPT ![t] = IdleThread]
    /\ UNCHANGED <<rng, inp, call, memo, net, ncall>>

NextConcurrent ==
    \E t \in Threads :
        \/ Enter(t)
        \/ SeedStep(t)
        \/ AngleStep(t)
        \/ ScaleStep(t)
        \/ NoiseStep(t)
        \/ Return(t)

SpecConcurrent == InitConcurrent /\ [][NextConcurrent]_vars

(* C10: with the seed and draw steps of concurrent calls interleaved in    *)
(* any order, every call returns the output it returns when run alone with *)
(* its seed.                                                               *)
C10_ConcurrentCallsIndependent ==
    \A t \in Threads :
        thr[t].pc = "done"
            => thr[t].result = augment_image(thr[t].img, thr[t].seed, 0).result

----------------------------------------------------------------------------
(* model.py: DoodleNet.  The state_dict is sampled by one entry of each    *)
(* kind: a convolution weight, a BatchNorm running mean, and the two       *)
(* classifier entries whose shapes depend on num_classes.  A tensor's      *)
(* content is one number; running means are in tenths.                     *)

DefaultClasses == 5
FreshWeight == 1
SavedWeight == 2
SavedMean == 30
Momentum == 10      \* BatchNorm2d's default momentum 0.1, as its inverse
MaxTracked == 3

ClassCounts == {DefaultClasses - 1, DefaultClasses}
DeclaredKeys ==
    {"conv1.0.weight", "conv1.1.running_mean", "classifier.1.weight", "classifier.1.bias"}
UnexpectedKey == "classifier.2.weight"

ShapeOf(key, num_classes) ==
    CASE key = "conv1.0.weight" -> <<32, 1, 3, 3>>
      [] key = "conv1.1.running_mean" -> <<32>>
      [] key = "classifier.1.weight" -> <<num_classes, 512>>
      [] key = "classifier.1.bias" -> <<num_classes>>
      [] OTHER -> <<1>>

(* DoodleNet(num_classes): freshly initialised parameters, zero running    *)
(* mean, training mode (nn.Module's default).                              *)
DoodleNet(num_classes) ==
    [num_classes |-> num_classes,
     training |-> TRUE,
     tracked |-> 0,
     state |-> [k \in DeclaredKeys |->
                  [shape |-> ShapeOf(k, num_classes),
                   val |-> IF k = "conv1.1.running_mean" THEN 0 ELSE FreshWeight]]]

(* A checkpoint saved from a DoodleNet of `classes` classes, restricted to *)
(* `keys`.                                                                 *)
Checkpoint(classes, keys) ==
    [k \in keys |->
        [shape |-> ShapeOf(k, classes),
         val |-> IF k = "conv1.1.running_mean" THEN SavedMean ELSE SavedWeight]]

StateDicts ==
    {Checkpoint(c, keys) : c \in ClassCounts,
                           keys \in SUBSET (DeclaredKeys \cup {UnexpectedKey})}

Matches(model, state_dict, k) ==
    k \in DOMAIN state_dict /\ state_dict[k].shape = model.state[k].shape

(* Whether the weight source fits the classifier's declared parameters.    *)
Compatible(model, state_dict) ==
    /\ DOMAIN state_dict = DeclaredKeys
    /\ \A k \in DeclaredKeys : Matches(model, state_dict, k)

(* model.load_state_dict(state_dict), strict: every matching entry is      *)
(* copied in place; the errors are raised after the copies.                *)
load_state_dict(model, state_dict) ==
    [model  |-> [model EXCEPT !.state =
                    [k \in DeclaredKeys |->
                        IF Matches(model, state_dict, k) THEN state_dict[k]
                        ELSE model.state[k]]],
     result |-> IF Compatible(model, state_dict) THEN Ok("loaded")
                ELSE Raise("RuntimeError")]

(* create_model(num_classes, pretrained_path): the local `model` when the  *)
(* function returns or raises, and the outcome.                            *)
create_model(num_classes, pretrained) ==
    LET model == DoodleNet(num_classes)
    IN  IF pretrained = None THEN [model |-> model, result |-> Ok("created")]
        ELSE load_state_dict(model, pretrained[1])

(* forward(x): conv1's BatchNorm normalizes with the batch mean in         *)
(* training mode and moves its running mean toward it; in evaluation mode  *)
(* it normalizes with the running mean.  Dropout zeroes the features under *)
(* a drawn mask in training mode only.                                     *)
(* The numbers stand for tensors: the activation is the convolution output *)
(* less the normalizing mean, rectified; every class's logit is a multiple *)
(* of the classifier's affine map of it.                                   *)
BatchMean(model, x) == model.state["conv1.0.weight"].val * x * Momentum

forward(model, x, mask) ==
    LET batch_mean == BatchMean(model, x)
        mean == IF model.training THEN batch_mean
                ELSE model.state["conv1.1.running_mean"].val
        feature == Max(batch_mean + x - mean, 0)
        dropped == IF model.training /\ mask THEN 0 ELSE feature
        logit == model.state["classifier.1.weight"].val * dropped
                    + model.state["classifier.1.bias"].val
        after == IF model.training
                 THEN [model EXCEPT
                         !.state["conv1.1.running_mean"].val =
                             ((Momentum - 1) * @ + batch_mean) \div Momentum,
                         !.tracked = @ + 1]
                 ELSE model
    IN  [logits |-> [c \in 0 .. model.num_classes - 1 |-> logit * (c + 1)],
         model |-> after]

(* probs.max(1) after softmax: the first index of the largest logit.       *)
ArgMax(logits) ==
    CHOOSE c \in DOMAIN logits :
        /\ \A d \in DOMAIN logits : logits[d] <= logits[c]
        /\ \A d \in DOMAIN logits : logits[d] = logits[c] => c <= d

predict(model, x, mask) ==
    LET out == forward(model, x, mask)
    IN  [result |-> [predicted |-> ArgMax(out.logits),
                     top_logit |-> out.logits[ArgMax(out.logits)]],
         model |-> out.model]

Batches == {0, 1, 2}

InitClassifier ==
    /\ net = DoodleNet(DefaultClasses)
    /\ ncall = Idle
    /\ rng = 0 /\ inp = Idle /\ call = Idle /\ memo = <<>> /\ thr = <<>>

CreateModel ==
    \E num_classes \in ClassCounts, pretrained \in {None} \cup {Some(sd) : sd \in StateDicts} :
        LET out == create_model(num_classes, pretrained)
        IN  /\ ncall' = [op |-> "create_model", num_classes |-> num_classes,
                         pretrained |-> pretrained, model |-> out.model,
                         result |-> out.result]
            /\ net' = IF out.result.kind = "ok" THEN out.model ELSE net
            /\ UNCHANGED <<rng, inp, call, memo, thr>>

(* nn.Module.train() / eval(), inherited by DoodleNet. *)
Train ==
    /\ ~net.training
    /\ net' = [net EXCEPT !.training = TRUE]
    /\ ncall' = [op |-> "train"]
    /\ UNCHANGED <<rng, inp, call, memo, thr>>

Eval ==
    /\ net.training
    /\ net' = [net EXCEPT !.training = FALSE]
    /\ ncall' = [op |-> "eval"]
    /\ UNCHANGED <<rng, inp, call, memo, thr>>

Predict ==
    /\ net.training => net.tracked < MaxTracked
    /\ \E x \in Batches, mask \in BOOLEAN :
          LET out == predict(net, x, mask)
          IN  /\ (mask => net.training)
              /\ ncall' = [op |-> "predict", x |-> x, mask |-> mask, before |-> net,
                           result |-> out.result]
              /\ net' = out.model
    /\ UNCHANGED <<rng, inp, call, memo, thr>>

NextClassifier == CreateModel \/ Train \/ Eval \/ Predict

SpecClassifier == InitClassifier /\ [][NextClassifier]_vars

(* C1: a weight source that does not match the declared parameters makes   *)
(* loading raise, and at that moment none of the classifier's parameters   *)
(* has been changed.                                                       *)
C1_MismatchedLoadAllOrNothing ==
    (/\ ncall.op = "create_model"
     /\ ncall.pretrained # None
     /\ ~Compatible(DoodleNet(ncall.num_classes), ncall.pretrained[1]))
        => /\ ncall.result.kind = "raise"
           /\ ncall.model = DoodleNet(ncall.num_classes)

(* C2: predict is a pure inference path: in training mode as in evaluation *)
(* mode the model's stored state is unchanged when predict returns, and    *)
(* the result is a function of the weights and the input alone.            *)
C2_PredictPure ==
    ncall.op = "predict"
        => /\ net = ncall.before
           /\ ncall.result = predict(ncall.before, ncall.x, FALSE).result

====
